---- MODULE Spec2Model ----
(***************************************************************************)
(* State-machine model of the two crawl engines of website-crawler:        *)
(*   EnhancedSEOCrawler (01_crawler.py)  : specification Spec / FairSpec    *)
(*   WebsiteCrawler     (crawler.py)     : specification SpecW              *)
(* The web site is the environment: the response to a GET is chosen when   *)
(* the request is made and remembered in `web`, so a page that is fetched  *)
(* again serves the same document.                                         *)
(***************************************************************************)
EXTENDS Integers, Sequences, FiniteSets

VARIABLES
  base_url,       \* self.base_url
  max_pages,      \* self.max_pages
  visited_urls,   \* self.visited_urls : set of URLs
  to_visit,       \* EnhancedSEOCrawler.to_visit : deque of URLs
  urls_to_visit,  \* WebsiteCrawler.crawl local urls_to_visit : set of URLs
  results,        \* self.results : list of records
  pc,             \* position of the control flow
  url,            \* loop variable url / current_url
  status,         \* response.status_code of the current response
  soup,           \* the parsed document tree: its anchors, in document order
  pending,        \* how the try statement is being left when finally runs
  interrupted,    \* a KeyboardInterrupt has been raised
  csv,            \* rows written by save_to_csv
  exit_code,      \* return value of main()
  web,            \* environment: the response each page has given so far
  log,            \* history: the requests and sleeps, in order
  discarded,      \* history: the URLs dequeued when already visited
  at_interrupt    \* history: results and log as the KeyboardInterrupt was raised

vars == <<base_url, max_pages, visited_urls, to_visit, urls_to_visit, results,
          pc, url, status, soup, pending, interrupted, csv, exit_code, web,
          log, discarded, at_interrupt>>

\* Largest page budget (--max-pages) the model draws.
MaxBudget == 4

--------------------------------------------------------------------------
(* URLs and hrefs.  A URL string is modelled by its urlparse() components; *)
(* an absent component is "".  Paths have the shape /dir/file.             *)

U(s, h, d, f, g) == [scheme |-> s, host |-> h, dir |-> d, file |-> f, frag |-> g]

NoUrl == U("", "", "", "", "")

\* the crawl site's pages
AP == U("http", "h", "a", "p", "")
AQ == U("http", "h", "a", "q", "")
BP == U("http", "h", "b", "p", "")
BQ == U("http", "h", "b", "q", "")

\* hrefs as they appear in the markup
HrefBP   == U("", "", "b", "p", "")          \* "/b/p"
HrefBQ   == U("", "", "b", "q", "")          \* "/b/q"
HrefAQ   == U("", "", "a", "q", "")          \* "/a/q"
HrefRelQ == U("", "", "", "q", "")           \* "q"
HrefFrag == U("", "", "", "", "f")           \* "#f"
HrefMail == U("mailto", "", "", "x", "")     \* "mailto:x"
HrefExt  == U("http", "x", "a", "p", "")     \* "http://x/a/p"
HrefHome == U("http", "h", "a", "p", "")     \* "http://h/a/p"

\* an element of a parsed document.  nav: it sits inside a script/style/nav/
\* footer/header/iframe subtree; href: the href of an anchor; text: its text
\* node and attr: its content/alt/href attribute, as sequences of tokens, a
\* token being a word or " ", a run of whitespace
El(t, n, h, x, a) == [tag |-> t, nav |-> n, href |-> h, text |-> x, attr |-> a]

\* an anchor <a href=...>, outside and inside a nav/header/footer/iframe subtree
A(h)    == El("a", FALSE, h, <<>>, <<>>)
ANav(h) == El("a", TRUE, h, <<>>, <<>>)

\* soup.find_all('a', href=True)
find_all_a(tree) == SelectSeq(tree, LAMBDA e : e.tag = "a")

\* soup.find_all(tag) for the other elements
find_all(tree, t) == SelectSeq(tree, LAMBDA e : e.tag = t)

\* the documents a page of the site may serve (its anchors, in document order)
Docs ==
  { <<>>,
    <<A(HrefBP), ANav(HrefAQ)>>,
    <<A(HrefBQ), A(HrefAQ)>>,
    <<A(HrefFrag), A(HrefHome)>>,
    <<A(HrefMail), A(HrefExt)>>,
    <<A(HrefRelQ)>>,
    <<A(HrefAQ), A(HrefBP)>>,
    <<ANav(HrefBP), A(HrefRelQ), A(HrefHome)>> }

\* the body of an error page (served with status 404): a link back to the home
\* page in the text, one in the footer
ErrorDoc == <<A(HrefHome), ANav(HrefHome)>>

\* the responses a GET that returns may carry: status code, the anchors of the
\* body, and whether the body is the empty string
Responses ==
  {[status |-> 200, doc |-> d, empty |-> FALSE] : d \in Docs}
    \cup {[status |-> 404, doc |-> ErrorDoc, empty |-> FALSE],
          [status |-> 200, doc |-> <<>>, empty |-> TRUE]}

\* the seed URLs drawn for the command line
\* (argparse takes any string: the last is "p" typed with no scheme and no host)
Seeds == {AP, U("http", "h", "a", "p", "f"), U("", "", "", "p", "")}

\* the page a URL names: the URL without its fragment
Page(u) == [u EXCEPT !.frag = ""]

\* urllib.parse.urljoin(base, u)
urljoin(base, u) ==
  IF u = NoUrl THEN base
  ELSE IF u.scheme # "" /\ u.scheme # base.scheme THEN u
  ELSE IF u.host # "" THEN [u EXCEPT !.scheme = base.scheme]
  ELSE IF u.dir = "" /\ u.file = "" THEN [base EXCEPT !.frag = u.frag]
  ELSE IF u.dir # "" THEN [base EXCEPT !.dir = u.dir, !.file = u.file, !.frag = u.frag]
  ELSE [base EXCEPT !.file = u.file, !.frag = u.frag]

\* url.split('#')[0]
StripFragment(u) == [u EXCEPT !.frag = ""]

\* self.domain = urlparse(base_url).netloc
domain == base_url.host

\* EnhancedSEOCrawler.is_internal_url
is_internal_url(u) == u.host = "" \/ u.host = domain

\* EnhancedSEOCrawler.get_absolute_url
get_absolute_url(u) == urljoin(base_url, StripFragment(u))

\* requests raises InvalidSchema / MissingSchema for anything but http(s)
Fetchable(u) == u.scheme \in {"http", "https"} /\ u.host # ""

InSeq(x, s) == \E i \in 1..Len(s) : s[i] = x

--------------------------------------------------------------------------
(* EnhancedSEOCrawler *)

Init ==
  /\ base_url \in Seeds
  /\ max_pages \in 0..MaxBudget
  /\ visited_urls = {}
  /\ to_visit = <<base_url>>
  /\ urls_to_visit = {}
  /\ results = <<>>
  /\ pc = "loop"
  /\ url = NoUrl
  /\ status = 0
  /\ soup = <<>>
  /\ pending = "none"
  /\ interrupted = FALSE
  /\ csv = <<>>
  /\ exit_code = -1
  /\ web = [p \in {} |-> <<>>]
  /\ log = <<>>
  /\ discarded = {}
  /\ at_interrupt = [results |-> <<>>, log |-> <<>>]

\* the environment remembers the response a page has given
Serve(p, d) == [q \in DOMAIN web \cup {p} |-> IF q = p THEN d ELSE web[q]]

\* the responses the site can give for u: a page already served serves the same
Servable(u) ==
  IF Page(u) \in DOMAIN web
    THEN {web[Page(u)]}
    ELSE Responses

\* a history entry: a GET and how it ended, or a sleep
Event(e, u, o) == [ev |-> e, url |-> u, out |-> o]

\* get_visible_text: decompose() the script/style/nav/footer/header/iframe
\* subtrees of the tree it is given; what is left of the anchors
get_visible_text(tree) == SelectSeq(tree, LAMBDA a : ~a.nav)

CountInternal(tree) == Cardinality({i \in 1..Len(tree) : is_internal_url(tree[i].href)})

\* clean_text: ' '.join(str(text).split()) -- the words, whitespace runs dropped
clean_text(text) == SelectSeq(text, LAMBDA x : x # " ")

\* count_words, of a text clean_text has returned
count_words(text) == Len(text)

\* soup.get_text(...) cleaned: the words of the text nodes, in document order
RECURSIVE get_text(_)
get_text(tree) ==
  IF tree = <<>> THEN <<>> ELSE clean_text(Head(tree).text) \o get_text(Tail(tree))

\* h2 elements that extract_seo_data reads: soup.find_all('h2')[:3]
H2Limit == 3

\* SEOMetrics(url=url, status_code=status_code): every other field at its default
\* (h2s: None, which to_dict treats as the empty list)
SEOMetrics(u, st) ==
  [url |-> u, status_code |-> st, title |-> <<>>, meta_description |-> <<>>,
   h1 |-> <<>>, h2s |-> <<>>, canonical |-> <<>>, meta_robots |-> <<>>,
   word_count |-> 0, internal_links |-> 0, external_links |-> 0,
   image_count |-> 0, images_with_alt |-> 0]

\* the statements of the try body of extract_seo_data, in order
ExtractSteps ==
  <<"title", "meta_description", "h1", "h2s", "canonical", "meta_robots",
    "word_count", "links", "images">>

\* where a statement stands in the try body; "none" (nothing raises) stands last
StepIndex(f) ==
  IF \E i \in 1..Len(ExtractSteps) : ExtractSteps[i] = f
    THEN CHOOSE i \in 1..Len(ExtractSteps) : ExtractSteps[i] = f
    ELSE Len(ExtractSteps) + 1

\* the statement of field f has run when the one that raises comes later
Assigned(f, fail) == StepIndex(f) < StepIndex(fail)

\* the tree after extract_seo_data: get_visible_text (statement "word_count")
\* has decomposed it unless an earlier statement raised
TreeAfterExtract(tree, fail) ==
  IF StepIndex("word_count") <= StepIndex(fail) THEN get_visible_text(tree) ELSE tree

\* extract_seo_data(soup, url, status_code) when statement `fail` raises ("none":
\* no statement does): the except clause prints, and metrics is returned as the
\* statements before `fail` left it
extract_seo_data(tree, u, st, fail) ==
  LET titles    == find_all(tree, "title")
      meta_desc == find_all(tree, "meta_description") \o find_all(tree, "og_description")
      h1s       == find_all(tree, "h1")
      h2        == find_all(tree, "h2")
      canonical == find_all(tree, "canonical")
      robots    == find_all(tree, "meta_robots")
      visible   == get_visible_text(tree)
      all_links == find_all_a(visible)
      images    == find_all(visible, "img")
      d         == SEOMetrics(u, st)
      n2        == IF Len(h2) < H2Limit THEN Len(h2) ELSE H2Limit
  IN  [url |-> u, status_code |-> st,
       title |-> IF Assigned("title", fail) /\ titles # <<>>
                   THEN clean_text(Head(titles).text) ELSE d.title,
       meta_description |-> IF Assigned("meta_description", fail) /\ meta_desc # <<>>
                   THEN clean_text(Head(meta_desc).attr) ELSE d.meta_description,
       h1 |-> IF Assigned("h1", fail) /\ h1s # <<>>
                   THEN clean_text(Head(h1s).text) ELSE d.h1,
       h2s |-> IF Assigned("h2s", fail)
                   THEN [i \in 1..n2 |-> clean_text(h2[i].text)] ELSE d.h2s,
       canonical |-> IF Assigned("canonical", fail) /\ canonical # <<>>
                   THEN Head(canonical).attr ELSE d.canonical,
       meta_robots |-> IF Assigned("meta_robots", fail) /\ robots # <<>>
                   THEN Head(robots).attr ELSE d.meta_robots,
       word_count |-> IF Assigned("word_count", fail)
                   THEN count_words(get_text(visible)) ELSE d.word_count,
       internal_links |-> IF Assigned("links", fail)
                   THEN CountInternal(all_links) ELSE d.internal_links,
       external_links |-> IF Assigned("links", fail)
                   THEN Len(all_links) - CountInternal(all_links) ELSE d.external_links,
       image_count |-> IF Assigned("images", fail) THEN Len(images) ELSE d.image_count,
       images_with_alt |-> IF Assigned("images", fail)
                   THEN Len(SelectSeq(images, LAMBDA e : clean_text(e.attr) # <<>>))
                   ELSE d.images_with_alt]

\* the for loop over soup.find_all('a', href=True): the queue after the anchors
RECURSIVE AddLinks(_, _)
AddLinks(anchors, queue) ==
  IF anchors = <<>> THEN queue
  ELSE LET href    == Head(anchors).href
           abs_url == get_absolute_url(href)
       IN  AddLinks(Tail(anchors),
                    IF /\ is_internal_url(href)
                       /\ abs_url \notin visited_urls
                       /\ ~InSeq(abs_url, queue)
                      THEN Append(queue, abs_url)
                      ELSE queue)

\* Caught with a bare "except:" in place of "except Exception"
Caught_BareExcept(exc) == TRUE

\* Caught with the handler narrowed to requests.RequestException, for an error
\* that is none (a parser error, an InvalidSchema subclass of ValueError, ...)
Caught_Narrowed(exc) == FALSE

\* the inner handler, "except Exception as e": what it catches
Caught(exc) == exc = "Exception"

\* LoopCondition without the budget test: while self.to_visit
LoopCondition_NoBudget == to_visit # <<>>

\* while self.to_visit and len(self.visited_urls) < self.max_pages
LoopCondition == to_visit # <<>> /\ Cardinality(visited_urls) < max_pages

\* Dequeue without the test "if url in self.visited_urls: continue"
Dequeue_NoVisitedTest ==
  /\ pc = "loop"
  /\ LoopCondition
  /\ url' = Head(to_visit)
  /\ to_visit' = Tail(to_visit)
  /\ pc' = "fetch"
  /\ UNCHANGED <<at_interrupt, base_url, max_pages, visited_urls, urls_to_visit, results,
                 status, soup, pending, interrupted, csv, exit_code, web, log, discarded>>

\* Dequeue reading self.to_visit[0] where the code calls popleft(): a visited
\* URL stays at the head of the queue
Dequeue_Peek ==
  /\ pc = "loop"
  /\ LoopCondition
  /\ url' = Head(to_visit)
  /\ IF Head(to_visit) \in visited_urls
       THEN /\ discarded' = discarded \cup {Head(to_visit)}
            /\ UNCHANGED <<pc, to_visit>>
       ELSE /\ pc' = "fetch"
            /\ to_visit' = Tail(to_visit)
            /\ UNCHANGED discarded
  /\ UNCHANGED <<at_interrupt, base_url, max_pages, visited_urls, urls_to_visit, results,
                 status, soup, pending, interrupted, csv, exit_code, web, log>>

\* url = self.to_visit.popleft(); if url in self.visited_urls: continue
Dequeue ==
  /\ pc = "loop"
  /\ LoopCondition
  /\ url' = Head(to_visit)
  /\ to_visit' = Tail(to_visit)
  /\ IF Head(to_visit) \in visited_urls
       THEN /\ discarded' = discarded \cup {Head(to_visit)}
            /\ UNCHANGED pc
       ELSE /\ pc' = "fetch"
            /\ UNCHANGED discarded
  /\ UNCHANGED <<at_interrupt, base_url, max_pages, visited_urls, urls_to_visit, results, status,
                 soup, pending, interrupted, csv, exit_code, web, log>>

\* the while condition is false: print "Crawling completed", crawl() returns
LoopExit ==
  /\ pc = "loop"
  /\ ~LoopCondition
  /\ pc' = "done"
  /\ UNCHANGED <<at_interrupt, base_url, max_pages, visited_urls, to_visit, urls_to_visit, results,
                 url, status, soup, pending, interrupted, csv, exit_code, web, log,
                 discarded>>

\* response = self.session.get(url); content = response.text; if not content: ...
\* soup = BeautifulSoup(content)
Fetch ==
  /\ pc = "fetch"
  /\ \/ \* session.get raises: except Exception prints, then finally
        /\ log' = Append(log, Event("fetch", url, "raised"))
        /\ pending' = IF Caught("Exception") THEN "caught" ELSE "error"
        /\ pc' = "finally"
        /\ UNCHANGED <<visited_urls, status, soup, web>>
     \/ \* empty body: visited_urls.add(url); continue (finally still runs)
        /\ Fetchable(url)
        /\ \E r \in Servable(url) :
             /\ r.empty
             /\ log' = Append(log, Event("fetch", url, "empty"))
             /\ status' = r.status
             /\ web' = Serve(Page(url), r)
        /\ visited_urls' = visited_urls \cup {url}
        /\ pending' = "continue"
        /\ pc' = "finally"
        /\ UNCHANGED soup
     \/ \* a response with a body, parsed
        /\ Fetchable(url)
        /\ \E r \in Servable(url) :
             /\ ~r.empty
             /\ log' = Append(log, Event("fetch", url, "ok"))
             /\ status' = r.status
             /\ soup' = r.doc
             /\ web' = Serve(Page(url), r)
        /\ pc' = "extract"
        /\ UNCHANGED <<visited_urls, pending>>
  /\ UNCHANGED <<at_interrupt, base_url, max_pages, to_visit, urls_to_visit, results, url,
                 interrupted, csv, exit_code, discarded>>

\* seo_data = self.extract_seo_data(soup, url, response.status_code)
\* self.results.append(seo_data)
\* (no statement of extract_seo_data raises on the documents of the crawl, which
\* hold anchors only; SpecX draws the failures)
Extract ==
  /\ pc = "extract"
  /\ results' = Append(results, extract_seo_data(soup, url, status, "none"))
  /\ soup' = TreeAfterExtract(soup, "none")
  /\ pc' = "discover"
  /\ UNCHANGED <<at_interrupt, base_url, max_pages, visited_urls, to_visit, urls_to_visit, url,
                 status, pending, interrupted, csv, exit_code, web, log, discarded>>

\* for link in soup.find_all('a', href=True): ... self.to_visit.append(abs_url)
Discover ==
  /\ pc = "discover"
  /\ to_visit' = AddLinks(find_all_a(soup), to_visit)
  /\ pending' = "normal"
  /\ pc' = "finally"
  /\ UNCHANGED <<at_interrupt, base_url, max_pages, visited_urls, urls_to_visit, results, url,
                 status, soup, interrupted, csv, exit_code, web, log, discarded>>

\* where the control flow goes once the finally block is through: the next
\* iteration; "except KeyboardInterrupt" of the outer try, after which crawl()
\* returns; or, for an exception no handler of crawl() catches, out of crawl()
AfterFinally(p) ==
  IF p = "interrupt" THEN "done" ELSE IF p = "error" THEN "raised" ELSE "loop"

\* Finally with self.visited_urls.add(url) as the last statement of the try
\* body where the code has it in the finally block
Finally_AddInTryBody ==
  /\ pc = "finally"
  /\ visited_urls' = IF pending = "normal" THEN visited_urls \cup {url} ELSE visited_urls
  /\ log' = Append(log, Event("sleep", url, ""))
  /\ pc' = AfterFinally(pending)
  /\ pending' = "none"
  /\ UNCHANGED <<at_interrupt, base_url, max_pages, to_visit, urls_to_visit, results, url, status,
                 soup, interrupted, csv, exit_code, web, discarded>>

\* Finally with time.sleep(1) as the last statement of the try body where the
\* code has it in the finally block
Finally_SleepInTryBody ==
  /\ pc = "finally"
  /\ visited_urls' = visited_urls \cup {url}
  /\ log' = IF pending = "normal" THEN Append(log, Event("sleep", url, "")) ELSE log
  /\ pc' = AfterFinally(pending)
  /\ pending' = "none"
  /\ UNCHANGED <<at_interrupt, base_url, max_pages, to_visit, urls_to_visit, results, url, status,
                 soup, interrupted, csv, exit_code, web, discarded>>

\* finally: self.visited_urls.add(url); time.sleep(1)
\* then the next iteration, or the KeyboardInterrupt goes on to the outer handler
Finally ==
  /\ pc = "finally"
  /\ visited_urls' = visited_urls \cup {url}
  /\ log' = Append(log, Event("sleep", url, ""))
  /\ pc' = AfterFinally(pending)
  /\ pending' = "none"
  /\ UNCHANGED <<at_interrupt, base_url, max_pages, to_visit, urls_to_visit, results, url, status,
                 soup, interrupted, csv, exit_code, web, discarded>>

\* Ctrl+C: a KeyboardInterrupt raised where the control flow stands.  It is no
\* Exception, so only finally and the outer except KeyboardInterrupt see it.
KeyboardInterrupt ==
  /\ ~interrupted
  /\ interrupted' = TRUE
  /\ \/ \* between two iterations
        /\ pc = "loop"
        /\ pc' = "done"
        /\ UNCHANGED <<to_visit, visited_urls, pending, log>>
     \/ \* after popleft(), during print("Crawling: ..."), before the inner try
        /\ pc = "fetch"
        /\ pc' = "done"
        /\ UNCHANGED <<to_visit, visited_urls, pending, log>>
     \/ \* during session.get
        /\ pc = "fetch"
        /\ log' = Append(log, Event("fetch", url, "interrupted"))
        /\ pending' = IF Caught("KeyboardInterrupt") THEN "caught" ELSE "interrupt"
        /\ pc' = "finally"
        /\ UNCHANGED <<to_visit, visited_urls>>
     \/ \* during extract_seo_data
        /\ pc = "extract"
        /\ pending' = IF Caught("KeyboardInterrupt") THEN "caught" ELSE "interrupt"
        /\ pc' = "finally"
        /\ UNCHANGED <<to_visit, visited_urls, log>>
     \/ \* during link discovery, after k anchors
        /\ pc = "discover"
        /\ \E k \in 0..Len(find_all_a(soup)) :
             to_visit' = AddLinks(SubSeq(find_all_a(soup), 1, k), to_visit)
        /\ pending' = IF Caught("KeyboardInterrupt") THEN "caught" ELSE "interrupt"
        /\ pc' = "finally"
        /\ UNCHANGED <<visited_urls, log>>
     \/ \* during time.sleep(1)
        /\ pc = "finally"
        /\ visited_urls' = visited_urls \cup {url}
        /\ log' = Append(log, Event("sleep", url, ""))
        /\ pending' = "none"
        /\ pc' = "done"
        /\ UNCHANGED to_visit
  /\ at_interrupt' = [results |-> results, log |-> log']
  /\ UNCHANGED <<base_url, max_pages, urls_to_visit, results, url, status, soup,
                 csv, exit_code, web, discarded>>

\* ' | '.join(self.h2s)
RECURSIVE JoinPipe(_)
JoinPipe(texts) ==
  IF texts = <<>> THEN <<>>
  ELSE IF Len(texts) = 1 THEN Head(texts)
  ELSE Head(texts) \o <<"|">> \o JoinPipe(Tail(texts))

\* the keys of the dictionary SEOMetrics.to_dict returns: the CSV's columns
ToDictColumns ==
  {"URL", "Status Code", "Title", "Meta Description", "H1", "H2s", "Canonical",
   "Meta Robots", "Word Count", "Internal Links", "External Links", "Image Count",
   "Images with Alt", "Alt Text Coverage"}

\* SEOMetrics.to_dict: the row of one record ("Alt Text Coverage" in tenths of a
\* percent, rounded, or N/A)
to_dict(m) ==
  [c \in ToDictColumns |->
     CASE c = "URL"              -> m.url
       [] c = "Status Code"      -> m.status_code
       [] c = "Title"            -> m.title
       [] c = "Meta Description" -> m.meta_description
       [] c = "H1"               -> m.h1
       [] c = "H2s"              -> JoinPipe(m.h2s)
       [] c = "Canonical"        -> m.canonical
       [] c = "Meta Robots"      -> m.meta_robots
       [] c = "Word Count"       -> m.word_count
       [] c = "Internal Links"   -> m.internal_links
       [] c = "External Links"   -> m.external_links
       [] c = "Image Count"      -> m.image_count
       [] c = "Images with Alt"  -> m.images_with_alt
       [] c = "Alt Text Coverage" ->
            IF m.image_count > 0
              THEN <<(m.images_with_alt * 2000 + m.image_count) \div (2 * m.image_count)>>
              ELSE <<"N/A">>]

\* EnhancedSEOAnalyzer.load_data: the columns it requires of the crawler's CSV
required_columns ==
  {"URL", "Status_Code", "Title", "Meta_Description", "H1", "H2s", "Canonical",
   "Meta_Robots", "Word_Count", "Internal_Links", "External_Links", "Image_Count",
   "Images_With_Alt_Count"}

\* EnhancedSEOAnalyzer.load_data on the rows of a written file: True unless a
\* required column is missing from the header (no row: no file, read_csv raises)
load_data(rows) ==
  /\ rows # <<>>
  /\ {col \in required_columns : col \notin DOMAIN rows[1]} = {}

\* main(): crawler.crawl() has returned; crawler.save_to_csv(args.output); return 0,
\* or return 1 when save_to_csv raises
SaveToCsv ==
  /\ pc = "done"
  /\ pc' = "exit"
  /\ IF results = <<>>
       THEN exit_code' = 0 /\ UNCHANGED csv
       ELSE \/ /\ csv' = [i \in 1..Len(results) |-> to_dict(results[i])]
               /\ exit_code' = 0
            \/ /\ exit_code' = 1
               /\ UNCHANGED csv
  /\ UNCHANGED <<at_interrupt, base_url, max_pages, visited_urls, to_visit, urls_to_visit, results,
                 url, status, soup, pending, interrupted, web, log, discarded>>

Next ==
  \/ Dequeue
  \/ LoopExit
  \/ Fetch
  \/ Extract
  \/ Discover
  \/ Finally
  \/ KeyboardInterrupt
  \/ SaveToCsv

Spec == Init /\ [][Next]_vars

--------------------------------------------------------------------------
(* WebsiteCrawler *)

InitW ==
  /\ base_url \in Seeds
  /\ max_pages \in 0..MaxBudget
  /\ visited_urls = {}
  /\ to_visit = <<>>
  /\ urls_to_visit = {base_url}
  /\ results = <<>>
  /\ pc = "w_loop"
  /\ url = NoUrl
  /\ status = 0
  /\ soup = <<>>
  /\ pending = "none"
  /\ interrupted = FALSE
  /\ csv = <<>>
  /\ exit_code = -1
  /\ web = [p \in {} |-> <<>>]
  /\ log = <<>>
  /\ discarded = {}
  /\ at_interrupt = [results |-> <<>>, log |-> <<>>]

\* WebsiteCrawler.is_valid_url
is_valid_url(u) == u.host # "" /\ u.host = domain /\ u.scheme \in {"http", "https"}

\* get_page_metadata, the return of the try body (documents here hold anchors only:
\* no title, meta or heading elements)
Metadata(u, st) ==
  [url |-> u, title |-> "No title", meta_description |-> "", keywords |-> "",
   headings |-> <<>>, status_code |-> st, timestamp |-> "now"]

\* get_page_metadata, the return of the except handler
ErrorMetadata(u) == [url |-> u, error |-> "error", timestamp |-> "now"]

\* find_links: the set built from soup.find_all('a', href=True)
find_links(u, doc) ==
  {full_url \in {urljoin(u, find_all_a(doc)[i].href) : i \in 1..Len(find_all_a(doc))} :
     is_valid_url(full_url) /\ full_url \notin visited_urls}

\* while urls_to_visit and len(self.visited_urls) < self.max_pages:
\*   current_url = urls_to_visit.pop(); if current_url in self.visited_urls: continue
WDequeue ==
  /\ pc = "w_loop"
  /\ urls_to_visit # {}
  /\ Cardinality(visited_urls) < max_pages
  /\ \E u \in urls_to_visit :
       /\ url' = u
       /\ urls_to_visit' = urls_to_visit \ {u}
       /\ IF u \in visited_urls
            THEN /\ discarded' = discarded \cup {u}
                 /\ UNCHANGED pc
            ELSE /\ pc' = "w_metadata"
                 /\ UNCHANGED discarded
  /\ UNCHANGED <<at_interrupt, base_url, max_pages, visited_urls, to_visit, results, status, soup,
                 pending, interrupted, csv, exit_code, web, log>>

\* return self.results
WLoopExit ==
  /\ pc = "w_loop"
  /\ ~(urls_to_visit # {} /\ Cardinality(visited_urls) < max_pages)
  /\ pc' = "w_done"
  /\ UNCHANGED <<at_interrupt, base_url, max_pages, visited_urls, to_visit, urls_to_visit, results,
                 url, status, soup, pending, interrupted, csv, exit_code, web, log,
                 discarded>>

\* metadata = self.get_page_metadata(current_url); self.results.append(metadata)
\* self.visited_urls.add(current_url)
WMetadata ==
  /\ pc = "w_metadata"
  /\ \/ \* requests.get raises
        /\ log' = Append(log, Event("fetch", url, "raised"))
        /\ results' = Append(results, ErrorMetadata(url))
        /\ UNCHANGED <<status, web>>
     \/ \* a response; raise_for_status raises on 4xx/5xx
        /\ Fetchable(url)
        /\ \E r \in Servable(url) :
             /\ log' = Append(log, Event("fetch", url, IF r.status >= 400 THEN "raised" ELSE "ok"))
             /\ status' = r.status
             /\ web' = Serve(Page(url), r)
             /\ results' = Append(results, IF r.status >= 400
                                             THEN ErrorMetadata(url)
                                             ELSE Metadata(url, r.status))
  /\ visited_urls' = visited_urls \cup {url}
  /\ pc' = "w_find_links"
  /\ UNCHANGED <<at_interrupt, base_url, max_pages, to_visit, urls_to_visit, url, soup, pending,
                 interrupted, csv, exit_code, discarded>>

\* new_links = self.find_links(current_url)
\* urls_to_visit.update(new_links - self.visited_urls)
WFindLinks ==
  /\ pc = "w_find_links"
  /\ \/ \* requests.get raises: find_links returns set()
        /\ log' = Append(log, Event("fetch", url, "raised"))
        /\ UNCHANGED <<urls_to_visit, soup, web>>
     \/ /\ Fetchable(url)
        /\ \E r \in Servable(url) :
             /\ log' = Append(log, Event("fetch", url, "ok"))
             /\ soup' = r.doc
             /\ web' = Serve(Page(url), r)
             /\ urls_to_visit' = urls_to_visit \cup (find_links(url, r.doc) \ visited_urls)
  /\ pc' = "w_sleep"
  /\ UNCHANGED <<at_interrupt, base_url, max_pages, visited_urls, to_visit, results, url, status,
                 pending, interrupted, csv, exit_code, discarded>>

\* time.sleep(self.delay)
WSleep ==
  /\ pc = "w_sleep"
  /\ log' = Append(log, Event("sleep", url, ""))
  /\ pc' = "w_loop"
  /\ UNCHANGED <<at_interrupt, base_url, max_pages, visited_urls, to_visit, urls_to_visit, results,
                 url, status, soup, pending, interrupted, csv, exit_code, web, discarded>>

\* csv.DictWriter(f, fieldnames).writerow(row), extrasaction at its default
\* 'raise': ValueError for a row with a key that is no fieldname (a fieldname
\* the row lacks is written as '')
writerow_raises(fieldnames, row) == ~(DOMAIN row \subseteq fieldnames)

\* WebsiteCrawler.save_to_csv(rows) writes the file through: there are rows,
\* fieldnames = self.results[0].keys(), and no writerow raises (when one does,
\* the except clause prints "Error saving to CSV" and the file stays cut short)
save_to_csv_writes(rows) ==
  /\ rows # <<>>
  /\ \A i \in 1..Len(rows) : ~writerow_raises(DOMAIN rows[1], rows[i])

NextW ==
  \/ WDequeue
  \/ WLoopExit
  \/ WMetadata
  \/ WFindLinks
  \/ WSleep

SpecW == InitW /\ [][NextW]_vars

--------------------------------------------------------------------------
(* The site's link graph, as the pages served so far define it: a page that *)
(* was never served has no links.                                          *)

InDomain(u) == u.host = domain /\ u.scheme \in {"http", "https"}

\* the in-domain pages the anchors of page p point to, each href resolved
\* against p itself
TrueLinks(p) ==
  IF p \in DOMAIN web
    THEN {t \in {Page(urljoin(p, find_all_a(web[p].doc)[i].href)) :
                    i \in 1..Len(find_all_a(web[p].doc))} :
            InDomain(t)}
    ELSE {}

RECURSIVE ReachFrom(_)
ReachFrom(S) ==
  LET N == S \cup UNION {TrueLinks(p) : p \in S}
  IN  IF N = S THEN S ELSE ReachFrom(N)

\* the distinct in-domain pages reachable from the seed
ReachablePages == ReachFrom({Page(base_url)})

RECURSIVE Level(_, _, _)
Level(p, S, k) ==
  IF p \in S THEN k
  ELSE Level(p, S \cup UNION {TrueLinks(q) : q \in S}, k + 1)

\* link-graph distance of a reachable page from the seed
Dist(p) == Level(p, {Page(base_url)}, 0)

FetchesOf(l) == {i \in 1..Len(l) : l[i].ev = "fetch"}

HasRecord(u) == \E i \in 1..Len(results) : results[i].url = u

--------------------------------------------------------------------------
(* extract_seo_data on its own: one document, parsed and extracted repeatedly *)

\* the longest document drawn, in elements
MaxElems == 3

\* the most calls of extract_seo_data in one run
MaxCalls == 2

\* the elements a drawn document is made of: a title padded with whitespace,
\* an <h1> inside <header>, an <h2>, a meta description, a canonical link,
\* an image with alt text and one whose alt is blank, an in-domain anchor in
\* the text and an external one in the footer
XElems ==
  { El("title", FALSE, NoUrl, <<" ", "seo", " ">>, <<>>),
    El("h1", TRUE, NoUrl, <<"news">>, <<>>),
    El("h2", FALSE, NoUrl, <<"a", " ", "b">>, <<>>),
    El("meta_description", FALSE, NoUrl, <<>>, <<"about", " ">>),
    El("canonical", FALSE, NoUrl, <<>>, <<"c">>),
    El("img", FALSE, NoUrl, <<>>, <<"pic">>),
    El("img", FALSE, NoUrl, <<>>, <<" ">>),
    A(HrefBP),
    ANav(HrefExt) }

\* the documents of at most MaxElems elements
XDocs == UNION {[1..n -> XElems] : n \in 0..MaxElems}

\* the statement of extract_seo_data that raises in a call, or none
XFailures == {ExtractSteps[i] : i \in 1..Len(ExtractSteps)} \cup {"none"}

\* a crawler for AP whose GET of the seed has returned 200 with a drawn body,
\* parsed into soup (crawl, up to soup = BeautifulSoup(response.content))
InitX ==
  /\ base_url = AP
  /\ max_pages = 1
  /\ visited_urls = {}
  /\ to_visit = <<>>
  /\ urls_to_visit = {}
  /\ results = <<>>
  /\ pc = "x_call"
  /\ url = AP
  /\ status = 200
  /\ soup \in XDocs
  /\ pending = "none"
  /\ interrupted = FALSE
  /\ csv = <<>>
  /\ exit_code = -1
  /\ web = [p \in {AP} |-> [status |-> 200, doc |-> soup, empty |-> soup = <<>>]]
  /\ log = <<>>
  /\ discarded = {}
  /\ at_interrupt = [results |-> <<>>, log |-> <<>>]

\* one call extract_seo_data(soup, url, status_code) on the tree as it stands;
\* the history notes the statement that raised
XExtract ==
  /\ pc = "x_call"
  /\ Len(results) < MaxCalls
  /\ \E fail \in XFailures :
       /\ results' = Append(results, extract_seo_data(soup, url, status, fail))
       /\ soup' = TreeAfterExtract(soup, fail)
       /\ log' = Append(log, Event("extract", url, fail))
  /\ UNCHANGED <<at_interrupt, base_url, max_pages, visited_urls, to_visit, urls_to_visit, pc,
                 url, status, pending, interrupted, csv, exit_code, web, discarded>>

\* soup = BeautifulSoup(response.content, 'html.parser') once more: the same
\* HTML parsed into a fresh tree
XParse ==
  /\ pc = "x_call"
  /\ soup # web[AP].doc
  /\ soup' = web[AP].doc
  /\ UNCHANGED <<at_interrupt, base_url, max_pages, visited_urls, to_visit, urls_to_visit,
                 results, pc, url, status, pending, interrupted, csv, exit_code, web, log,
                 discarded>>

NextX ==
  \/ XExtract
  \/ XParse

SpecX == InitX /\ [][NextX]_vars

--------------------------------------------------------------------------
(* Claims *)

\* C1: no duplicate visits -- in every reachable state of
\* EnhancedSEOCrawler.crawl, no two records of results carry the same URL.
C1_NoDuplicateVisits ==
  \A i, j \in 1..Len(results) : i # j => results[i].url # results[j].url

\* C1 witness: a URL that has a record came off the queue a second time and
\* was discarded, in a run with two or more records.
C1_Witness ==
  /\ Len(results) >= 2
  /\ \E i \in 1..Len(results) : results[i].url \in discarded

\* C2 (as claimed): for a positive budget the output never holds more than
\* max_pages records, and it holds max_pages records only if at least
\* max_pages distinct in-domain pages are reachable from the seed.
C2_BudgetRespected ==
  max_pages > 0 =>
    /\ Len(results) <= max_pages
    /\ Len(results) = max_pages => Cardinality(ReachablePages) >= max_pages

\* C3 (as claimed): at every loop-iteration boundary each visited URL has
\* exactly one record, so len(results) = len(visited_urls); a failed fetch
\* has a record with status 0.
C3_OneRecordPerVisited ==
  pc = "loop" =>
    /\ Len(results) = Cardinality(visited_urls)
    /\ \A u \in visited_urls : HasRecord(u)
    /\ \A i \in 1..Len(log) :
         log[i].ev = "fetch" /\ log[i].out = "raised" /\ log[i].url \in visited_urls
           => \E k \in 1..Len(results) :
                results[k].url = log[i].url /\ results[k].status_code = 0

\* C4: a per-page error never aborts the crawl -- no exception of a page
\* leaves crawl(), and without a user interrupt the loop is left only with
\* the frontier empty or the budget reached.
C4_PageFailureNeverAborts ==
  /\ pc # "raised"
  /\ (pc \in {"done", "exit"} /\ ~interrupted)
       => (to_visit = <<>> \/ Cardinality(visited_urls) >= max_pages)

\* C4 witness: crawl() has returned, uninterrupted, from a run in which a
\* fetch raised and a later URL was fetched and recorded.
C4_Witness ==
  /\ pc = "done"
  /\ ~interrupted
  /\ \E i, j \in 1..Len(log) :
       /\ i < j
       /\ log[i].ev = "fetch" /\ log[i].out = "raised"
       /\ log[j].ev = "fetch" /\ log[j].out = "ok" /\ HasRecord(log[j].url)

\* C5 (as claimed): the seed is the first record, and of two recorded pages
\* the one nearer to the seed in the link graph comes first.
C5_BreadthFirstOrder ==
  /\ results # <<>> => results[1].url = base_url
  /\ \A i, j \in 1..Len(results) :
       (/\ Page(results[i].url) \in ReachablePages
        /\ Page(results[j].url) \in ReachablePages
        /\ Dist(Page(results[i].url)) < Dist(Page(results[j].url))) => i < j

\* the steps of the program itself (a KeyboardInterrupt is the user's)
CrawlStep ==
  Dequeue \/ LoopExit \/ Fetch \/ Extract \/ Discover \/ Finally \/ SaveToCsv

\* the interpreter keeps executing the program: a step that can be taken is taken
FairSpec == Spec /\ WF_vars(CrawlStep)

\* C6: termination -- for every seed, budget, link graph (cycles and
\* self-links included) and fetch outcomes, the loop of crawl() is eventually
\* left.
C6_Termination == <>(pc \in {"done", "exit"})

\* C6 witness: the loop was left, without an interrupt, in a run where a link
\* cycle had brought an already visited URL back to the head of the queue.
C6_Witness ==
  /\ pc = "done"
  /\ ~interrupted
  /\ discarded # {}
  /\ Len(results) >= 2

\* C7: interruption flushes partial results -- once a KeyboardInterrupt has
\* been raised no further fetch starts, crawl() returns normally, results
\* holds exactly the records it held at the interrupt, and main() goes on to
\* save_to_csv, which writes one row per record unless the write fails.
C7_InterruptFlushes ==
  interrupted =>
    /\ FetchesOf(log) = FetchesOf(at_interrupt.log)
    /\ results = at_interrupt.results
    /\ pc \in {"finally", "done", "exit"}
    /\ (pc = "exit" /\ exit_code = 0)
         => csv = [i \in 1..Len(results) |-> to_dict(results[i])]

\* C7 witness: main() has saved the records of a crawl that was interrupted
\* during a fetch while URLs were still waiting in the frontier.
C7_Witness ==
  /\ interrupted
  /\ pc = "exit"
  /\ csv # <<>>
  /\ to_visit # <<>>
  /\ at_interrupt.log # <<>>
  /\ at_interrupt.log[Len(at_interrupt.log)].out = "interrupted"

\* C8: uniform politeness delay -- every fetch attempt, whatever its outcome,
\* is followed by exactly one sleep for its URL before anything else is
\* requested, a sleep only ever follows a fetch, the loop test is reached only
\* with the sleep done, and a discarded dequeue adds no fetch and no sleep.
C8_PolitenessDelay ==
  /\ \A i \in 1..Len(log) :
       /\ log[i].ev = "fetch" =>
            (i < Len(log) => log[i + 1].ev = "sleep" /\ log[i + 1].url = log[i].url)
       /\ log[i].ev = "sleep" => (i > 1 /\ log[i - 1].ev = "fetch")
  /\ pc = "loop" => (log = <<>> \/ log[Len(log)].ev = "sleep")
  /\ \A u \in discarded :
       Cardinality({i \in 1..Len(log) : log[i].url = u}) <= 2

\* C8 witness: a fetch that raised was followed by its sleep and then by the
\* next fetch, and a visited URL was dequeued and discarded.
C8_Witness ==
  /\ discarded # {}
  /\ \E i \in 1..Len(log) :
       /\ log[i].ev = "fetch" /\ log[i].out = "raised"
       /\ i + 2 <= Len(log)
       /\ log[i + 1].ev = "sleep"
       /\ log[i + 2].ev = "fetch"

\* C9 (as claimed): every URL that link discovery has put in the frontier
\* (every URL there but the seed as typed) has scheme http or https and the
\* crawl domain as host, and no other URL is ever fetched.
C9_FrontierInScope ==
  /\ \A i \in 1..Len(to_visit) : to_visit[i] # base_url => InDomain(to_visit[i])
  /\ \A i \in 1..Len(log) : log[i].url # base_url => InDomain(log[i].url)

\* C10 (as claimed): extraction leaves the parsed document unchanged, so link
\* discovery sees every anchor of the fetched page and, when it is through,
\* every in-scope anchor is visited or in the frontier.
C10_ExtractionPreservesAnchors ==
  /\ pc = "discover" => soup = web[Page(url)].doc
  /\ (pc = "finally" /\ pending = "normal") =>
       \A i \in 1..Len(find_all_a(web[Page(url)].doc)) :
         LET href == find_all_a(web[Page(url)].doc)[i].href
         IN  is_internal_url(href) =>
               \/ get_absolute_url(href) \in visited_urls
               \/ InSeq(get_absolute_url(href), to_visit)


\* C11 (as claimed): extraction is deterministic -- any two calls of
\* extract_seo_data for the same HTML in which no statement raised, on a fresh
\* tree or on the tree an earlier call was given, return the same value for
\* every field.
C11_ExtractionDeterministic ==
  pc = "x_call" =>
    \A i, j \in 1..Len(results) :
      (log[i].out = "none" /\ log[j].out = "none") => results[i] = results[j]

\* C12 (as claimed): the columns the crawler writes are exactly the thirteen
\* names the analyzer's load_data requires, so load_data accepts the file.
C12_ColumnContract ==
  (pc = "exit" /\ csv # <<>>) =>
    /\ \A i \in 1..Len(csv) : DOMAIN csv[i] = required_columns
    /\ load_data(csv)

\* C13 (as claimed): when every GET of the seed raises a connection error
\* (the site never answers), WebsiteCrawler.crawl returns with an empty
\* frontier and exactly one record, the seed's, which has status 0 and its
\* text fields (title, meta description, headings) present and empty.
C13_SeedConnectionError ==
  (pc = "w_done" /\ max_pages >= 1 /\ DOMAIN web = {}) =>
    /\ urls_to_visit = {}
    /\ Len(results) = 1
    /\ results[1].url = base_url
    /\ {"status_code", "title", "meta_description", "headings"} \subseteq DOMAIN results[1]
    /\ results[1].status_code = 0
    /\ results[1].title = ""
    /\ results[1].meta_description = ""
    /\ results[1].headings = <<>>

\* C14 (as claimed): main() returns a non-zero exit status exactly when the
\* seed URL is invalid (no scheme or no host) or writing the output failed;
\* every other run returns 0.
C14_FatalExitStatus ==
  pc = "exit" =>
    ((exit_code # 0) <=>
       \/ base_url.scheme = "" \/ base_url.host = ""
       \/ (results # <<>> /\ csv = <<>>))

\* C15 (as claimed): the fragment-stripped URL is the deduplication key -- for
\* every seed, no two records name the same page (URLs equal once the fragment
\* is stripped), and no URL carrying a fragment is in the frontier or in the
\* visited set.
C15_FragmentStrippedIdentity ==
  /\ \A i, j \in 1..Len(results) : i # j => Page(results[i].url) # Page(results[j].url)
  /\ \A u \in visited_urls : u.frag = ""
  /\ \A i \in 1..Len(to_visit) : to_visit[i].frag = ""

\* C16 (as claimed): when crawl() has returned uninterrupted and every fetch
\* answered 200 with a body, the output holds exactly min(max_pages, number of
\* distinct in-domain pages reachable from the seed) records, the seed's first.
C16_OutputSize ==
  (/\ pc = "done"
   /\ ~interrupted
   /\ \A k \in FetchesOf(log) : log[k].out = "ok"
   /\ \A i \in 1..Len(results) : results[i].status_code = 200) =>
    /\ Len(results) = IF max_pages < Cardinality(ReachablePages)
                        THEN max_pages ELSE Cardinality(ReachablePages)
    /\ results # <<>> => results[1].url = base_url

\* C17 (as claimed): a record whose HTTP status is not 2xx has every extracted
\* field at its empty/zero default -- the body of an error page is not
\* extracted into the record.
C17_HttpErrorEmptyFields ==
  \A i \in 1..Len(results) :
    results[i].status_code \notin 200..299 =>
      results[i] = SEOMetrics(results[i].url, results[i].status_code)

\* the fields of the record that a statement of extract_seo_data assigns
StepFields(f) ==
  CASE f = "links"  -> {"internal_links", "external_links"}
    [] f = "images" -> {"image_count", "images_with_alt"}
    [] OTHER        -> {f}

\* C18 (as claimed): when deriving one field raises, extract_seo_data still
\* returns a record in which that field has its empty/zero default and every
\* other field, those derived after the failing one included, has the value
\* derived from the document.
C18_FailureConfinedToField ==
  (pc = "x_call" /\ Len(results) >= 1 /\ log[1].out # "none") =>
    LET got  == results[1]
        want == extract_seo_data(web[AP].doc, url, status, "none")
        d    == SEOMetrics(url, status)
    IN  \A c \in DOMAIN got :
          got[c] = IF c \in StepFields(log[1].out) THEN d[c] ELSE want[c]

\* C19 (as claimed): internal_links + external_links is the number of anchors
\* with an href in the fetched document, wherever they sit (nav, header and
\* footer included), and internal_links counts exactly the anchors whose href
\* has no host or the crawl domain as host.
C19_LinkCountsTotal ==
  (pc = "x_call" /\ Len(results) >= 1 /\ log[1].out = "none") =>
    LET anchors == find_all_a(web[AP].doc)
    IN  /\ results[1].internal_links + results[1].external_links = Len(anchors)
        /\ results[1].internal_links = CountInternal(anchors)

\* C20 (as claimed): a URL moves from the frontier to the visited set exactly
\* once -- no URL comes off the queue a second time, and a URL that has been
\* dequeued and recorded as visited is never in the frontier again, whatever
\* the link graph, self-links included.
C20_DequeuedOnce ==
  /\ discarded = {}
  /\ \A i \in 1..Len(to_visit) : to_visit[i] \notin visited_urls

\* C21: frontier invariant -- to_visit never holds a URL twice, and once the
\* iteration of a URL whose fetch was attempted is over (the loop is at its
\* head again, or crawl() has returned), the URL is in visited_urls, whether
\* the GET returned a body, returned an empty one, raised, or was interrupted.
C21_FrontierInvariant ==
  /\ \A i, j \in 1..Len(to_visit) : i # j => to_visit[i] # to_visit[j]
  /\ pc \in {"loop", "done", "exit"} =>
       \A k \in FetchesOf(log) : log[k].url \in visited_urls

\* C21 witness: crawl() has returned after a fetch that returned a page, one
\* that raised or returned an empty body, and one that was interrupted, with
\* a URL still waiting in the queue.
C21_Witness ==
  /\ pc = "done"
  /\ to_visit # <<>>
  /\ \E k \in FetchesOf(log) : log[k].out = "ok"
  /\ \E k \in FetchesOf(log) : log[k].out \in {"raised", "empty"}
  /\ \E k \in FetchesOf(log) : log[k].out = "interrupted"

\* C22 (as claimed): a relative href found on a fetched page is resolved
\* against the URL of that page -- every URL the link loop is about to append
\* to the queue is some anchor's href, fragment stripped, joined to the URL of
\* the page being processed.
C22_RelativeToPage ==
  pc = "discover" =>
    LET anchors == find_all_a(soup)
        queue   == AddLinks(anchors, to_visit)
    IN  \A i \in (Len(to_visit) + 1)..Len(queue) :
          \E k \in 1..Len(anchors) :
            queue[i] = urljoin(url, StripFragment(anchors[k].href))

\* C23 (as claimed): in WebsiteCrawler.crawl two consecutive HTTP requests, of
\* get_page_metadata or of find_links, are always separated by a sleep -- the
\* history never holds two requests back to back (a GET of a URL that requests
\* refuses before sending anything is no request).
C23_DelayBetweenRequests ==
  \A k \in 1..(Len(log) - 1) :
    ~(/\ log[k].ev = "fetch" /\ Fetchable(log[k].url)
      /\ log[k + 1].ev = "fetch" /\ Fetchable(log[k + 1].url))

\* the in-scope URLs that find_links read off the page of the k-th record (the
\* second request of the k-th iteration, when it returned)
LinksOfRecord(k) ==
  IF 3 * k - 1 <= Len(log) /\ log[3 * k - 1].out = "ok"
    THEN LET doc == find_all_a(web[Page(results[k].url)].doc)
         IN  {full_url \in {urljoin(results[k].url, doc[i].href) : i \in 1..Len(doc)} :
                is_valid_url(full_url)}
    ELSE {}

\* when a visited URL was discovered: 0 for the seed, else the number of the
\* first record whose page links to it
DiscoveredAt(u) ==
  IF u = base_url \/ ~\E k \in 1..Len(results) : u \in LinksOfRecord(k) THEN 0
  ELSE CHOOSE k \in 1..Len(results) :
         /\ u \in LinksOfRecord(k)
         /\ \A m \in 1..(k - 1) : u \notin LinksOfRecord(m)

\* C24 (as claimed): WebsiteCrawler.crawl visits pending URLs in the order of
\* their discovery -- a URL discovered on an earlier page is never visited
\* after a URL discovered on a later page.
C24_FifoDequeue ==
  \A i, j \in 1..Len(results) :
    i < j => DiscoveredAt(results[i].url) <= DiscoveredAt(results[j].url)

\* C25 (as claimed): every record of WebsiteCrawler has the same set of fields,
\* for a failed page as for a successful one, so that save_to_csv, which takes
\* its columns from the first record, writes every record of any crawl.
C25_FixedShapeRecords ==
  /\ \A i, j \in 1..Len(results) : DOMAIN results[i] = DOMAIN results[j]
  /\ results # <<>> => save_to_csv_writes(results)

\* C26: each URL is fetched at most once in a run of EnhancedSEOCrawler.crawl,
\* and the number of fetch attempts, failed ones included, never exceeds
\* max_pages.
C26_FetchesWithinBudget ==
  /\ \A i, j \in FetchesOf(log) : i # j => log[i].url # log[j].url
  /\ Cardinality(FetchesOf(log)) <= max_pages

\* C26 witness: the loop has stopped on the budget, with URLs still queued,
\* after max_pages attempts of which one raised and one returned a page.
C26_Witness ==
  /\ pc = "done"
  /\ ~interrupted
  /\ to_visit # <<>>
  /\ max_pages >= 2
  /\ Cardinality(FetchesOf(log)) = max_pages
  /\ \E k \in FetchesOf(log) : log[k].out = "raised"
  /\ \E k \in FetchesOf(log) : log[k].out = "ok"


====
